---- MODULE Spec2Model ----
(***************************************************************************)
(* Facets (Source.cpp): for base sets A_1..A_n of {0..63}, count for each  *)
(* k the sets X of order k that are a subset of at least one A_i.          *)
(*                                                                         *)
(* A 64-bit unsigned integer is modelled by the set of its one-bits, a     *)
(* subset of 0..63: | is \cup, & is \cap, ^ is the symmetric difference,   *)
(* == is =, and the unsigned order is decided by the highest differing bit.*)
(* An input line is modelled by the sequence of the integers that          *)
(* First_element extracts from it, left to right.                          *)
(***************************************************************************)
EXTENDS Integers, Sequences, FiniteSets

VARIABLES
    input,               \* the lines of the input file
    line_no,             \* number of lines getline has consumed
    number,              \* int number
    sets,                \* sets[0..number-1] as written by Read_input
    sequences,           \* sequences[0..number-1], each row the written entries
    numbers_of_subsets,  \* int numbers_of_subsets[65]
    pc,                  \* position in main / Read_input / Compute_numbers
    i,                   \* outer loop variable of Compute_numbers
    subset,              \* local subset of Compute_numbers
    size,                \* local size of Compute_numbers
    index,               \* index found by the last successor scan
    visited,             \* history: values subset has taken for the current A_i
    output               \* the lines Write_output wrote

vars == <<input, line_no, number, sets, sequences, numbers_of_subsets, pc, i,
          subset, size, index, visited, output>>

----------------------------------------------------------------------------
(* Bounds of the model                                                     *)

MaxSets == 2
MaxLen == 2
MaxElem == 2
MaxRawSets == 2
MaxRawLen == 3

(* Program constants                                                       *)

MAX_NUMBER == 1000
WORD == 64
INT_MAX == 2147483647

----------------------------------------------------------------------------
(* 64-bit words as sets of bit positions                                   *)

Xor(a, b) == (a \ b) \cup (b \ a)

MaxOf(S) == CHOOSE x \in S : \A y \in S : y <= x

\* a < b for unsigned long long int values
ULess(a, b) == a # b /\ MaxOf(Xor(a, b)) \in b

\* 1ULL << x.  For x outside 0..63 the shift is undefined: a build either
\* uses the low six bits of the count (wrap) or yields 0.
Shl1(x, wrap) ==
    IF x \in 0..(WORD - 1) THEN {x}
    ELSE IF wrap THEN {x % WORD} ELSE {}

----------------------------------------------------------------------------
(* Read_input                                                              *)

\* First_element that takes the last element of the string instead of the first
First_elementLast(csstring) ==
    [x |-> csstring[Len(csstring)], rest |-> SubSeq(csstring, 1, Len(csstring) - 1)]

\* x = the text before the first comma, converted to int; that text and the
\* comma are erased from csstring
First_element(csstring) == [x |-> Head(csstring), rest |-> Tail(csstring)]

RECURSIVE LineLoop(_, _, _, _)
\* LineLoop that stores the single element instead of the accumulated set
LineLoopSingle(line, set, seq, wrap) ==
    IF line = <<>> THEN [set |-> set, seq |-> seq]
    ELSE LET fe == First_element(line)
             s2 == set \cup Shl1(fe.x, wrap)
         IN  LineLoop(fe.rest, s2, Append(seq, Shl1(fe.x, wrap)), wrap)

\* while (line != "") { x = First_element(line); set |= 1ULL << x;
\*                      sequences[number][index] = set; index++; }
LineLoop(line, set, seq, wrap) ==
    IF line = <<>> THEN [set |-> set, seq |-> seq]
    ELSE LET fe == First_element(line)
             s2 == set \cup Shl1(fe.x, wrap)
         IN  LineLoop(fe.rest, s2, Append(seq, s2), wrap)

\* the body of while (getline(file, line)) for one line
LoadLine(line, wrap) == LineLoop(line, {}, <<>>, wrap)

\* arrays extended by one written entry
Store(arr, n, v) == [j \in 0..n |-> IF j = n THEN v ELSE arr[j]]

RECURSIVE LoadFrom(_, _, _)
LoadFrom(lines, k, st) ==
    IF k > Len(lines) THEN st
    ELSE LET r == LoadLine(lines[k], TRUE)
         IN  LoadFrom(lines, k + 1,
                 [number |-> st.number + 1,
                  sets |-> Store(st.sets, st.number, r.set),
                  sequences |-> Store(st.sequences, st.number, r.seq)])

\* the globals after Read_input has read the whole file
Load(lines) == LoadFrom(lines, 1, [number |-> 0, sets |-> <<>>, sequences |-> <<>>])

----------------------------------------------------------------------------
(* Compute_numbers                                                         *)

\* sequences[i][idx]; static storage is zero-initialised, so an entry that
\* Read_input did not write reads as 0
Entry(Q, ii, idx) == IF idx + 1 <= Len(Q[ii]) THEN Q[ii][idx + 1] ELSE {}

\* containment test with | in place of &
ContainedOr(S, ii, sub) == \E j \in 0..(ii - 1) : (sub \cup S[j]) = sub

\* containment in the immediately preceding set only
ContainedPrevOnly(S, ii, sub) ==
    \E j \in {k \in 0..(ii - 1) : k = ii - 1} : (sub \cap S[j]) = sub

\* for (j = 0; j < i; j++) if ((subset & sets[j]) == subset) contained = true
Contained(S, ii, sub) == \E j \in 0..(ii - 1) : (sub \cap S[j]) = sub

\* scan that tests & instead of |
ScanIndexAnd(Q, ii, sub) ==
    LET stop == {t \in 0..(WORD - 1) : (sub \cap Entry(Q, ii, t)) # sub}
    IN  IF stop = {} THEN WORD ELSE CHOOSE t \in stop : \A u \in stop : t <= u

\* index = 0; while ((subset | sequences[i][index]) == subset) index++;
\* The scan cannot stop at an entry that reads as 0, so only written entries
\* are candidates; WORD stands for a scan that runs off the end of the row.
ScanIndex(Q, ii, sub) ==
    LET stop == {t \in 0..(Len(Q[ii]) - 1) : (sub \cup Entry(Q, ii, t)) # sub}
    IN  IF stop = {} THEN WORD ELSE CHOOSE t \in stop : \A u \in stop : t <= u

\* numbers_of_subsets[size]++
Increment(hist, sz) == [hist EXCEPT ![sz] = @ + 1]

\* successor that ORs the found entry in
SuccessorOr(sub, entry) == sub \cup entry

\* subset = subset ^ sequences[i][index]
Successor(sub, entry) == Xor(sub, entry)

\* refresh that always adds one
RefreshAddOne(sz, idx) == sz + 1

\* size -= index - 1
Refresh(sz, idx) == sz - (idx - 1)

\* numbers_of_subsets[size]++ is undefined for a size outside the array and
\* for a cell that holds the largest int
BadIncrement(hist, sz) == sz \notin 0..WORD \/ hist[sz] >= INT_MAX

\* One pass of the body of while (subset != set).  ub records an undefined
\* increment or a scan that leaves the row of sequences.
WhileBody(S, Q, ii, st) ==
    LET counted == ~Contained(S, ii, st.subset)
        t == ScanIndex(Q, ii, st.subset)
        bad == (counted /\ BadIncrement(st.hist, st.size)) \/ t >= WORD
    IN  IF bad THEN [st EXCEPT !.ub = TRUE, !.index = t]
        ELSE [subset |-> Successor(st.subset, Entry(Q, ii, t)),
              size |-> Refresh(st.size, t),
              index |-> t,
              hist |-> IF counted THEN Increment(st.hist, st.size) ELSE st.hist,
              ub |-> FALSE]

\* final case that counts the full set without the containment check
FinalCaseNoCheck(S, ii, st) ==
    IF BadIncrement(st.hist, st.size) THEN [st EXCEPT !.ub = TRUE]
    ELSE [st EXCEPT !.hist = Increment(st.hist, st.size)]

\* "Finally consider the remaining case subset == set"
FinalCase(S, ii, st) ==
    LET counted == ~Contained(S, ii, S[ii])
    IN  IF counted /\ BadIncrement(st.hist, st.size) THEN [st EXCEPT !.ub = TRUE]
        ELSE [st EXCEPT !.hist = IF counted THEN Increment(@, st.size) ELSE @]

RECURSIVE WhileLoop(_, _, _, _)
WhileLoop(S, Q, ii, st) ==
    IF st.ub \/ st.subset = S[ii] THEN st
    ELSE WhileLoop(S, Q, ii, WhileBody(S, Q, ii, st))

RECURSIVE OuterLoop(_, _, _, _, _)
OuterLoop(n, S, Q, ii, hist) ==
    IF ii >= n THEN hist
    ELSE LET st0 == [subset |-> {}, size |-> 0, index |-> 0, hist |-> hist,
                     ub |-> FALSE]
             st1 == WhileLoop(S, Q, ii, st0)
             st2 == IF st1.ub THEN st1 ELSE FinalCase(S, ii, st1)
         IN  IF st2.ub THEN st2.hist ELSE OuterLoop(n, S, Q, ii + 1, st2.hist)

ZeroHist == [k \in 0..WORD |-> 0]

\* numbers_of_subsets after Compute_numbers on loaded globals g
Compute_numbers(g) == OuterLoop(g.number, g.sets, g.sequences, 0, ZeroHist)

----------------------------------------------------------------------------
(* Write_output                                                            *)

RECURSIVE WriteFrom(_, _)
\* for (i = 0; i <= 64; i++) { if (numbers_of_subsets[i] == 0) break; write }
WriteFrom(hist, k) ==
    IF k > WORD \/ hist[k] = 0 THEN <<>>
    ELSE <<hist[k]>> \o WriteFrom(hist, k + 1)

----------------------------------------------------------------------------
(* Inputs                                                                  *)

SeqsUpTo(S, n) == UNION {[1..m -> S] : m \in 0..n}

Distinct(line) == \A a, b \in 1..Len(line) : a # b => line[a] # line[b]

InRange(line) == \A a \in 1..Len(line) : line[a] \in 0..(WORD - 1)

ValidLines == {l \in SeqsUpTo(0..MaxElem, MaxLen) : Distinct(l)}

ScenarioA == << <<1, 3, 5, 6>>, <<2, 4, 5, 16, 20>>, <<0, 2, 5>> >>
ScenarioB == << <<0, 1, 2>> >>
ScenarioC == << <<0, 1>>, <<0, 1>> >>
ScenarioTop == << <<63, 0>>, <<0, 63, 1>>, <<1, 63>> >>
ScenarioDoc == << <<1, 5, 2, 0>> >>
ScenarioShared == << <<0, 1>>, <<2>>, <<1, 3>> >>

Scenarios == {ScenarioA, ScenarioB, ScenarioC, ScenarioTop, ScenarioDoc, ScenarioShared}

ValidInputs == SeqsUpTo(ValidLines, MaxSets) \cup Scenarios

RawLines == SeqsUpTo((0..MaxElem) \cup {WORD}, MaxRawLen)

RawInputs == SeqsUpTo(RawLines, MaxRawSets)

----------------------------------------------------------------------------
(* The program                                                             *)

InitWith(inputs) ==
    /\ input \in inputs
    /\ line_no = 0
    /\ number = 0
    /\ sets = <<>>
    /\ sequences = <<>>
    /\ numbers_of_subsets = ZeroHist
    /\ pc = "main"
    /\ i = 0
    /\ subset = {}
    /\ size = 0
    /\ index = 0
    /\ visited = <<>>
    /\ output = <<>>

Init == InitWith(ValidInputs)

InitRaw == InitWith(RawInputs)

\* Read_input: if (!file.is_open()) return false;  main: "Can't read file"
ReadOpenFail ==
    /\ pc = "main"
    /\ pc' = "cant_read"
    /\ UNCHANGED <<input, line_no, number, sets, sequences, numbers_of_subsets,
                   i, subset, size, index, visited, output>>

\* Read_input: the file is open; number = 0
ReadOpen ==
    /\ pc = "main"
    /\ pc' = "getline"
    /\ number' = 0
    /\ UNCHANGED <<input, line_no, sets, sequences, numbers_of_subsets,
                   i, subset, size, index, visited, output>>

\* Read_input: one pass of while (getline(file, line))
ReadLine ==
    /\ pc = "getline"
    /\ line_no < Len(input)
    /\ \E wrap \in IF InRange(input[line_no + 1]) THEN {TRUE} ELSE BOOLEAN :
         LET r == LoadLine(input[line_no + 1], wrap)
         IN  /\ sets' = Store(sets, number, r.set)
             /\ sequences' = Store(sequences, number, r.seq)
    /\ number' = number + 1
    /\ line_no' = line_no + 1
    \* a write past sets[MAX_NUMBER - 1] or sequences[number][63] is undefined
    /\ pc' = IF number >= MAX_NUMBER \/ Len(input[line_no + 1]) > WORD
             THEN "undefined" ELSE pc
    /\ UNCHANGED <<input, numbers_of_subsets, i, subset, size, index,
                   visited, output>>

\* Read_input: getline fails at the end of the file; return true;
\* main calls Compute_numbers
ReadReturn ==
    /\ pc = "getline"
    /\ line_no = Len(input)
    /\ pc' = "for"
    /\ i' = 0
    /\ UNCHANGED <<input, line_no, number, sets, sequences, numbers_of_subsets,
                   subset, size, index, visited, output>>

\* Compute_numbers: for (...; i < number; ...) { set = sets[i]; subset = 0; size = 0;
ForEnter ==
    /\ pc = "for"
    /\ i < number
    /\ subset' = {}
    /\ size' = 0
    /\ visited' = <<{}>>
    /\ pc' = "while"
    /\ UNCHANGED <<input, line_no, number, sets, sequences, numbers_of_subsets,
                   i, index, output>>

Local == [subset |-> subset, size |-> size, index |-> index,
          hist |-> numbers_of_subsets, ub |-> FALSE]

\* Compute_numbers: one pass of while (subset != set)
While ==
    /\ pc = "while"
    /\ subset # sets[i]
    /\ LET st == WhileBody(sets, sequences, i, Local)
       IN  /\ subset' = st.subset
           /\ size' = st.size
           /\ index' = st.index
           /\ numbers_of_subsets' = st.hist
           /\ pc' = IF st.ub THEN "undefined" ELSE "while"
           /\ visited' = IF st.ub THEN visited ELSE Append(visited, st.subset)
    /\ UNCHANGED <<input, line_no, number, sets, sequences, i, output>>

\* Compute_numbers: the case subset == set after the loop; i++
Final ==
    /\ pc = "while"
    /\ subset = sets[i]
    /\ LET st == FinalCase(sets, i, Local)
       IN  /\ numbers_of_subsets' = st.hist
           /\ pc' = IF st.ub THEN "undefined" ELSE "for"
    /\ i' = i + 1
    /\ UNCHANGED <<input, line_no, number, sets, sequences, subset, size, index,
                   visited, output>>

\* Compute_numbers returns; main prints " Finished." and asks for the output file
ComputeReturn ==
    /\ pc = "for"
    /\ i >= number
    /\ pc' = "write"
    /\ UNCHANGED <<input, line_no, number, sets, sequences, numbers_of_subsets,
                   i, subset, size, index, visited, output>>

\* Write_output: if (!file.is_open()) return false;  main: "Can't write file"
WriteOpenFail ==
    /\ pc = "write"
    /\ pc' = "cant_write"
    /\ UNCHANGED <<input, line_no, number, sets, sequences, numbers_of_subsets,
                   i, subset, size, index, visited, output>>

\* Write_output writes the file; main: "Finished writing output data."
Write_output ==
    /\ pc = "write"
    /\ output' = WriteFrom(numbers_of_subsets, 0)
    /\ pc' = "written"
    /\ UNCHANGED <<input, line_no, number, sets, sequences, numbers_of_subsets,
                   i, subset, size, index, visited>>

Next ==
    \/ ReadOpenFail
    \/ ReadOpen
    \/ ReadLine
    \/ ReadReturn
    \/ ForEnter
    \/ While
    \/ Final
    \/ ComputeReturn
    \/ WriteOpenFail
    \/ Write_output

Spec == Init /\ [][Next]_vars

SpecRaw == InitRaw /\ [][Next]_vars

----------------------------------------------------------------------------
(* Properties                                                              *)

Elems(line) == {line[a] : a \in 1..Len(line)}

\* Compute_numbers has just returned; no later step changes numbers_of_subsets
Computed == pc = "write"

\* the sets X that are a subset of at least one base set of the input
Covered(lines) == UNION {SUBSET Elems(lines[k]) : k \in 1..Len(lines)}

CountOfOrder(cov, k) == Cardinality({X \in cov : Cardinality(X) = k})

MaxCard(lines) == MaxOf({Len(lines[k]) : k \in 1..Len(lines)})

Pow2(m) == Cardinality(SUBSET (1..m))

\* C1: after Read_input and Compute_numbers on lines of distinct elements of
\* 0..63, numbers_of_subsets[k] is, for every k in 0..64, the number of
\* distinct sets of order k that are a subset of at least one base set; the
\* worked example gives 1, 9, 18, 15, 6, 1 and 0 thereafter.
C1_HistogramCountsCoveredSets ==
    Computed =>
        /\ \A cov \in {Covered(input)} : \A k \in 0..WORD :
               numbers_of_subsets[k] = CountOfOrder(cov, k)
        /\ input = ScenarioA =>
               /\ \A k \in 0..5 : numbers_of_subsets[k] = <<1, 9, 18, 15, 6, 1>>[k + 1]
               /\ \A k \in 6..WORD : numbers_of_subsets[k] = 0

C1_Witness ==
    /\ pc = "written"
    /\ input = ScenarioA
    /\ output = <<1, 9, 18, 15, 6, 1>>

InvalidInput ==
    \/ Len(input) > MAX_NUMBER
    \/ \E k \in 1..Len(input) : ~InRange(input[k])

\* C2: when the input has more than MAX_NUMBER lines or a line has an element
\* outside 0..63, Read_input is unsuccessful and Compute_numbers is never
\* run: main stays in the load phase or ends with "Can't read file".
C2_InvalidInputIsRejected ==
    InvalidInput => pc \in {"main", "getline", "cant_read"}

\* C3: after Compute_numbers on a valid input with n >= 1 the nonzero cells
\* of numbers_of_subsets are exactly the cells 0..max |A_i|, and what
\* Write_output writes is every one of them, in ascending k.
C3_SupportIsPrefix ==
    /\ (Computed /\ Len(input) >= 1) =>
           /\ \A k \in 0..WORD : (numbers_of_subsets[k] > 0) <=> (k <= MaxCard(input))
           /\ \A k \in 0..WORD : (numbers_of_subsets[k] = 0) <=> (k > MaxCard(input))
    /\ (pc = "written" /\ Len(input) >= 1) =>
           /\ Len(output) = MaxCard(input) + 1
           /\ \A k \in 0..WORD : numbers_of_subsets[k] # 0 =>
                  /\ k + 1 <= Len(output)
                  /\ output[k + 1] = numbers_of_subsets[k]

C3_Witness ==
    /\ pc = "written"
    /\ Len(input) = 2
    /\ Len(input[1]) = 2
    /\ Len(input[2]) = 1
    /\ Elems(input[2]) \cap Elems(input[1]) = {}
    /\ Len(output) = 3

Perms(n) == {f \in [1..n -> 1..n] : \A a, b \in 1..n : a # b => f[a] # f[b]}

Permute(lines, f) == [k \in 1..Len(lines) |-> lines[f[k]]]

\* C4: when Compute_numbers returns, the histogram it has produced for the
\* input is the histogram it produces for every other ordering of the same
\* base sets.
C4_OrderIndependent ==
    Computed =>
        \A f \in Perms(Len(input)) :
            numbers_of_subsets = Compute_numbers(Load(Permute(input, f)))

\* two base sets that share a subset other than the empty set, neither
\* containing the other
C4_Witness ==
    /\ pc = "written"
    /\ Len(input) >= 2
    /\ Elems(input[1]) \cap Elems(input[2]) # {}
    /\ ~(Elems(input[1]) \subseteq Elems(input[2]))
    /\ ~(Elems(input[2]) \subseteq Elems(input[1]))

\* base set ii (0-based) is equal to or a subset of an earlier base set
Redundant(ii) ==
    \E j \in 0..(ii - 1) : Elems(input[ii + 1]) \subseteq Elems(input[j + 1])

\* C5: during the whole outer-loop iteration for a base set that is equal to
\* or a subset of an earlier base set, no step changes numbers_of_subsets.
C5_RedundantSetCountsNothing ==
    [][(pc = "while" /\ Redundant(i)) => numbers_of_subsets' = numbers_of_subsets]_vars

\* the iteration for a redundant base set of two elements has ended
C5_Witness ==
    /\ pc = "for"
    /\ i >= 2
    /\ Redundant(i - 1)
    /\ Len(visited) = 4

\* C6: the values subset takes during the iteration for A_i, a line of m
\* distinct elements, are subsets of A_i without repetition, and when the
\* loop has exited they are exactly the 2^m subsets of A_i, the last one
\* A_i, after 2^m - 1 successor steps.
C6_EachSubsetOnce ==
    /\ pc = "while" =>
           LET A == Elems(input[i + 1]) IN
           /\ \A a \in 1..Len(visited) : visited[a] \subseteq A
           /\ \A a, b \in 1..Len(visited) : a # b => visited[a] # visited[b]
           /\ visited[Len(visited)] = subset
           /\ subset = A => Len(visited) = Pow2(Len(input[i + 1]))
    /\ (pc = "for" /\ i >= 1) =>
           LET A == Elems(input[i]) IN
           /\ Len(visited) = Pow2(Len(input[i]))
           /\ {visited[a] : a \in 1..Len(visited)} = SUBSET A
           /\ \A a, b \in 1..Len(visited) : a # b => visited[a] # visited[b]
           /\ visited[Len(visited)] = A

C6_Witness ==
    /\ pc = "for"
    /\ i >= 1
    /\ Len(input[i]) = 2
    /\ Len(visited) = 4

\* C7: whenever the successor scan runs for a loaded base set it stops at an
\* index that Read_input wrote for that base set, and Compute_numbers makes
\* no access outside its arrays; a base set loaded from an empty line has no
\* entries and the scan does not run for it.
C7_ScanStaysInsideSequence ==
    /\ pc # "undefined"
    /\ (pc = "while" /\ subset # sets[i]) =>
           ScanIndex(sequences, i, subset) \in 0..(Len(sequences[i]) - 1)
    /\ (pc = "while" /\ Len(visited) > 1) =>
           index \in 0..(Len(sequences[i]) - 1)
    /\ (pc = "while" /\ sequences[i] = <<>>) => (subset = sets[i] /\ sets[i] = {})

\* an empty line has been processed and the scan for the next base set has
\* just stopped at its last entry
C7_Witness ==
    /\ pc = "while"
    /\ i >= 1
    /\ input[i] = <<>>
    /\ Len(visited) > 1
    /\ index >= 1
    /\ index = Len(sequences[i]) - 1

\* C8: at every point where Compute_numbers may increment
\* numbers_of_subsets[size], size is the number of elements of subset and
\* lies in 0..64, and a successor step that selects index t changes size by
\* 1 - t.
C8_SizeIsCardinality ==
    [][/\ pc = "while" => (size = Cardinality(subset) /\ size \in 0..WORD)
       /\ (pc = "while" /\ subset # sets[i]) =>
              /\ size' = size + 1 - index'
              /\ Cardinality(subset') = Cardinality(subset) + 1 - index'
              /\ size' \in 0..WORD]_vars

\* a successor step that removed two elements and added one
C8_Witness ==
    /\ pc = "while"
    /\ index = 2
    /\ size = 1
    /\ Len(visited) = 5

Increasing(less(_, _)) ==
    \A a \in 1..(Len(visited) - 1) : less(visited[a], visited[a + 1])

\* the line whose base set Compute_numbers is processing or has just processed
CurrentLine == IF pc = "while" THEN input[i + 1] ELSE input[i]

InIteration == pc = "while" \/ (pc = "for" /\ i >= 1)

\* C9 as stated: for every order in which the elements of A_i were listed,
\* the values subset takes are strictly increasing as 64-bit unsigned integers.
C9_IncreasingAsUnsigned == InIteration => Increasing(ULess)

Ascending(line) == \A a, b \in 1..Len(line) : a < b => line[a] < line[b]

\* a < b when the element at position p of the line is given the weight 2^p
PosLess(a, b) ==
    LET d == {p \in 1..Len(CurrentLine) : CurrentLine[p] \in Xor(a, b)}
    IN  d # {} /\ CurrentLine[MaxOf(d)] \in b

\* C9 amended: the values subset takes are strictly increasing when the
\* element listed at position p is given the weight 2^p, and strictly
\* increasing as 64-bit unsigned integers when the line lists its elements
\* in ascending order.
C9_IncreasingInListingOrder ==
    InIteration =>
        /\ Increasing(PosLess)
        /\ Ascending(CurrentLine) => Increasing(ULess)

\* the iteration for a line that lists a larger element before a smaller one
\* has ended
C9_Witness ==
    /\ pc = "for"
    /\ i >= 1
    /\ Len(input[i]) = 2
    /\ ~Ascending(input[i])
    /\ Len(visited) = 4

RECURSIVE Dedup(_)
\* the line without the later occurrences of a repeated element
Dedup(line) ==
    IF line = <<>> THEN <<>>
    ELSE LET front == SubSeq(line, 1, Len(line) - 1)
             last == line[Len(line)]
         IN  IF last \in Elems(front) THEN Dedup(front)
             ELSE Append(Dedup(front), last)

DedupInput(lines) == [k \in 1..Len(lines) |-> Dedup(lines[k])]

\* C10: for lines of elements of 0..63, Read_input loads the same base sets
\* and Compute_numbers produces the same numbers_of_subsets as for the
\* lines with the repeated elements removed.
C10_RepeatChangesNothing ==
    (Computed /\ ~InvalidInput) =>
        /\ sets = Load(DedupInput(input)).sets
        /\ numbers_of_subsets = Compute_numbers(Load(DedupInput(input)))

====
